---- MODULE Spec2Model ----
(***************************************************************************)
(* The login flows of the useAuth hook (client/src/hooks/useAuth.ts):      *)
(* handleGoogleAuth (federated sign-in followed by wallet linking) and     *)
(* connectWallet (wallet connection, SIWE challenge, signing, server-side  *)
(* verification).  Every invocation of one of the two operations is a flow *)
(* f; a flow advances one atomic step at a time, a step being the code the *)
(* JavaScript event loop runs between two awaits.  The external            *)
(* collaborators (federated provider, wallet, authentication service)      *)
(* answer each pending request with any result or with a failure.          *)
(***************************************************************************)
EXTENDS Integers, Sequences, FiniteSets, TLC

\* Number of invocations of handleGoogleAuth / connectWallet that are modelled.
MaxFlows == 2

Flows == 1..MaxFlows

\* JavaScript's undefined / null, and an omitted argument of a log entry.
None == "none"

----------------------------------------------------------------------------
(* Values the external collaborators can answer with.                      *)

\* Account strings the wallet may return from eth_requestAccounts: the
\* lower-case spellings of two accounts and a string that is no address.
RawAddresses == {"0xaa", "0xbb", "0xzz"}

\* eth_requestAccounts resolves with an array; [userAddress] takes its first
\* element, undefined when the array is empty.
AccountReplies == RawAddresses \cup {None}

\* Bodies of the challenge endpoint's 2xx answers ("" is the empty body).
ChallengeReplies == {"", "msg1", "msg2"}

\* Federated profile: displayName and photoURL are nullable.
DisplayNames == {None, "Alice"}
PhotoURLs == {None, "alice.png"}
AccessTokens == {None, "gtoken"}

\* err.code of a rejected signInWithPopup.
AuthErrorCodes == {"auth/popup-closed-by-user", "auth/network-request-failed", "auth/other"}

\* The wallet's signature over a challenge message.
SignatureOf(m) == IF m = "msg1" THEN "sig1" ELSE "sig2"

\* What signer.signMessage(m) can resolve with ("" is an empty signature).
SignReplies(m) == {"", SignatureOf(m)}

\* response.data.success of the verify endpoint's 2xx answers.
VerifyReplies == BOOLEAN

\* What getAddress yields when it throws.
Throws == "throws"

----------------------------------------------------------------------------
VARIABLES
    session,            \* the redux store: << >> while no user is set, else <<payload>>
    isWalletConnected,  \* useState(false), line 23
    location,           \* the router's current route
    ethereum,           \* window.ethereum with a request method is present
    pc,                 \* pc[f]: the await at which flow f is suspended
    op,                 \* op[f]: which operation flow f is an invocation of
    user,               \* handleGoogleAuth: result.user
    token,              \* handleGoogleAuth: credential?.accessToken
    address,            \* connectWallet: the normalized address
    message,            \* handleMetaMaskLogin: the challenge message
    signature,          \* handleMetaMaskLogin: the signature
    timer,              \* verifySignature: the setTimeout of line 230
    log                 \* log[f]: everything flow f did, in order

vars == <<session, isWalletConnected, location, ethereum, pc, op, user, token,
          address, message, signature, timer, log>>

----------------------------------------------------------------------------
(* Pure helpers.                                                           *)

\* ethers.utils.getAddress: the checksummed spelling of an address; throws on
\* anything that is no address (undefined included).
getAddress(raw) ==
    CASE raw = "0xaa" -> "0xAa"
      [] raw = "0xAa" -> "0xAa"
      [] raw = "0xbb" -> "0xBb"
      [] raw = "0xBb" -> "0xBb"
      [] OTHER -> Throws

\* !x for a string or undefined x.
Falsy(x) == x = None \/ x = ""

\* x || d
OrElse(x, d) == IF Falsy(x) THEN d ELSE x

\* GoogleWalletPayload with the token left for a later update.
GoogleWalletPayloadNoToken(u, t, a) ==
    [user |-> [name |-> OrElse(u.displayName, "User"),
               avatar |-> OrElse(u.photoURL, "https://cdn-icons-png.flaticon.com/128/3177/3177440.png"),
               walletAddress |-> a]]

\* The payload of lines 58-67.
GoogleWalletPayload(u, t, a) ==
    [user |-> [name |-> OrElse(u.displayName, "User"),
               avatar |-> OrElse(u.photoURL, "https://cdn-icons-png.flaticon.com/128/3177/3177440.png"),
               walletAddress |-> a],
     token |-> t]

\* GooglePayload without the || defaults.
GooglePayloadNoDefaults(u, t) ==
    [user |-> [name |-> u.displayName, avatar |-> u.photoURL], token |-> t]

\* The payload of lines 78-87 and of lines 103-112: no walletAddress field.
GooglePayload(u, t) ==
    [user |-> [name |-> OrElse(u.displayName, "User"),
               avatar |-> OrElse(u.photoURL, "https://cdn-icons-png.flaticon.com/128/3177/3177440.png")],
     token |-> t]

\* WalletPayload with the address under the field name 'address'.
WalletPayloadAddressField(a) ==
    [user |-> [name |-> "Anonymous",
               address |-> a,
               avatar |-> "https://cdn-icons-png.flaticon.com/128/10/10960.png"],
     token |-> "jadfkklakssl"]

\* The payload of lines 221-228.
WalletPayload(a) ==
    [user |-> [name |-> "Anonymous",
               walletAddress |-> a,
               avatar |-> "https://cdn-icons-png.flaticon.com/128/10/10960.png"],
     token |-> "jadfkklakssl"]

\* The setUser reducer of ../state: the payload replaces the stored record.
setUser(state, payload) == <<payload>>

\* Log entries.
Call(what, arg)   == <<"call", what, arg>>
Reply(what, arg)  == <<"reply", what, arg>>
Reject(what, why) == <<"reject", what, why>>
Toast(sev, text)  == <<"toast", sev, text>>
Dispatch(payload) == <<"dispatch", "setUser", payload>>
Navigate(route)   == <<"navigate", route, None>>
SetTimeout        == <<"setTimeout", "navigate", None>>
SetConnected      == <<"setIsWalletConnected", "true", None>>

Logged(f, es) == log' = [log EXCEPT ![f] = @ \o es]

----------------------------------------------------------------------------
Init ==
    /\ session = << >>
    /\ isWalletConnected = FALSE
    /\ location = "/"
    /\ ethereum \in BOOLEAN
    /\ pc = [f \in Flows |-> "idle"]
    /\ op = [f \in Flows |-> None]
    /\ user = [f \in Flows |-> [displayName |-> None, photoURL |-> None]]
    /\ token = [f \in Flows |-> None]
    /\ address = [f \in Flows |-> None]
    /\ message = [f \in Flows |-> None]
    /\ signature = [f \in Flows |-> None]
    /\ timer = [f \in Flows |-> "unset"]
    /\ log = [f \in Flows |-> << >>]

\* Invocations are numbered in the order in which they are made.
NextToStart(f) == pc[f] = "idle" /\ \A g \in Flows : g < f => pc[g] # "idle"

----------------------------------------------------------------------------
(* handleGoogleAuth, lines 27-129.                                         *)

\* Lines 28-36: the invocation runs up to the await of signInWithPopup.
handleGoogleAuth(f) ==
    /\ NextToStart(f)
    /\ pc' = [pc EXCEPT ![f] = "signInWithPopup"]
    /\ op' = [op EXCEPT ![f] = "handleGoogleAuth"]
    /\ Logged(f, <<Call("signInWithPopup", None)>>)
    /\ UNCHANGED <<session, isWalletConnected, location, ethereum, user, token,
                   address, message, signature, timer>>

\* NoToken without the return of line 43: the flow goes on to the wallet.
NoTokenContinues(f, u, t) ==
    /\ pc' = [pc EXCEPT ![f] = "eth_requestAccounts"]
    /\ user' = [user EXCEPT ![f] = u]
    /\ token' = [token EXCEPT ![f] = t]
    /\ Logged(f, <<Reply("signInWithPopup", <<u, t>>),
                   Toast("error", "Failed to get authentication token"),
                   Call("eth_requestAccounts", None)>>)
    /\ UNCHANGED <<session, isWalletConnected, location>>

\* Lines 41-44: no access token.
NoToken(f, u, t) ==
    /\ pc' = [pc EXCEPT ![f] = "done"]
    /\ Logged(f, <<Reply("signInWithPopup", <<u, t>>),
                   Toast("error", "Failed to get authentication token")>>)
    /\ UNCHANGED <<session, isWalletConnected, location, user, token>>

\* Lines 49-53: the wallet is present, its accounts are requested.
RequestAccountsAfterGoogle(f, u, t) ==
    /\ pc' = [pc EXCEPT ![f] = "eth_requestAccounts"]
    /\ user' = [user EXCEPT ![f] = u]
    /\ token' = [token EXCEPT ![f] = t]
    /\ Logged(f, <<Reply("signInWithPopup", <<u, t>>),
                   Call("eth_requestAccounts", None)>>)
    /\ UNCHANGED <<session, isWalletConnected, location>>

\* Lines 91-115: no wallet; the federated user is saved without one.
ContinueWithoutWallet(f, u, t) ==
    /\ pc' = [pc EXCEPT ![f] = "done"]
    /\ user' = [user EXCEPT ![f] = u]
    /\ token' = [token EXCEPT ![f] = t]
    /\ session' = setUser(session, GooglePayload(u, t))
    /\ location' = "/home"
    /\ Logged(f, <<Reply("signInWithPopup", <<u, t>>),
                   Toast("warn", "MetaMask is not installed. Continuing without wallet connection."),
                   Dispatch(GooglePayload(u, t)),
                   Navigate("/home")>>)
    /\ UNCHANGED isWalletConnected

\* Lines 36-49 and 91: signInWithPopup resolved with result.user = u and
\* credential?.accessToken = t.
signInWithPopupResolve(f, u, t) ==
    /\ pc[f] = "signInWithPopup"
    /\ IF Falsy(t) THEN NoToken(f, u, t)
       ELSE IF ethereum THEN RequestAccountsAfterGoogle(f, u, t)
       ELSE ContinueWithoutWallet(f, u, t)
    /\ UNCHANGED <<ethereum, op, address, message, signature, timer>>

\* The notification of lines 121-127 for err.code = code.
AuthErrorToast(code) ==
    IF code = "auth/popup-closed-by-user" THEN Toast("info", "Sign-in was cancelled")
    ELSE IF code = "auth/network-request-failed"
         THEN Toast("error", "Network error. Please check your connection.")
         ELSE Toast("error", "Authentication failed: ${errorMessage}")

\* signInWithPopupReject that reports nothing when the popup was closed.
signInWithPopupRejectSilentCancel(f, code) ==
    /\ pc[f] = "signInWithPopup"
    /\ pc' = [pc EXCEPT ![f] = "done"]
    /\ Logged(f, IF code = "auth/popup-closed-by-user"
                 THEN <<Reject("signInWithPopup", code)>>
                 ELSE <<Reject("signInWithPopup", code), AuthErrorToast(code)>>)
    /\ UNCHANGED <<session, isWalletConnected, location, ethereum, op, user, token,
                   address, message, signature, timer>>

\* Lines 116-128: signInWithPopup rejected.
signInWithPopupReject(f, code) ==
    /\ pc[f] = "signInWithPopup"
    /\ pc' = [pc EXCEPT ![f] = "done"]
    /\ Logged(f, <<Reject("signInWithPopup", code), AuthErrorToast(code)>>)
    /\ UNCHANGED <<session, isWalletConnected, location, ethereum, op, user, token,
                   address, message, signature, timer>>

\* Lines 72-90: the catch of the wallet part of handleGoogleAuth.
WalletErrorAfterGoogle(f) ==
    /\ session' = setUser(session, GooglePayload(user[f], token[f]))
    /\ location' = "/home"
    /\ pc' = [pc EXCEPT ![f] = "done"]

WalletErrorLog(f) ==
    <<Toast("error", "Failed to connect wallet. Please try again."),
      Dispatch(GooglePayload(user[f], token[f])),
      Navigate("/home")>>

\* Lines 54-71 (and 72-90 when getAddress throws): eth_requestAccounts
\* resolved with an array whose first element is raw.
googleAccountsResolve(f, raw) ==
    /\ pc[f] = "eth_requestAccounts" /\ op[f] = "handleGoogleAuth"
    /\ isWalletConnected' = TRUE
    /\ IF getAddress(raw) = Throws
       THEN /\ WalletErrorAfterGoogle(f)
            /\ Logged(f, <<Reply("eth_requestAccounts", raw), SetConnected>>
                         \o WalletErrorLog(f))
            /\ UNCHANGED address
       ELSE /\ address' = [address EXCEPT ![f] = getAddress(raw)]
            /\ session' = setUser(session, GoogleWalletPayload(user[f], token[f], getAddress(raw)))
            /\ location' = "/home"
            /\ pc' = [pc EXCEPT ![f] = "done"]
            /\ Logged(f, <<Reply("eth_requestAccounts", raw), SetConnected,
                           Dispatch(GoogleWalletPayload(user[f], token[f], getAddress(raw))),
                           Toast("success", "Successfully authenticated with Google and MetaMask!"),
                           Navigate("/home")>>)
    /\ UNCHANGED <<ethereum, op, user, token, message, signature, timer>>

\* googleAccountsReject with a catch that only reports the failure.
googleAccountsRejectFatal(f) ==
    /\ pc[f] = "eth_requestAccounts" /\ op[f] = "handleGoogleAuth"
    /\ pc' = [pc EXCEPT ![f] = "done"]
    /\ Logged(f, <<Reject("eth_requestAccounts", None),
                   Toast("error", "Failed to connect wallet. Please try again.")>>)
    /\ UNCHANGED <<session, location, isWalletConnected, ethereum, op, user, token,
                   address, message, signature, timer>>

\* Lines 72-90: eth_requestAccounts rejected (the user declined, or the
\* provider failed).
googleAccountsReject(f) ==
    /\ pc[f] = "eth_requestAccounts" /\ op[f] = "handleGoogleAuth"
    /\ WalletErrorAfterGoogle(f)
    /\ Logged(f, <<Reject("eth_requestAccounts", None)>> \o WalletErrorLog(f))
    /\ UNCHANGED <<isWalletConnected, ethereum, op, user, token, address, message,
                   signature, timer>>

----------------------------------------------------------------------------
(* connectWallet, lines 131-160, with handleMetaMaskLogin (242-257),       *)
(* getSiweMessage (162-193), signMessage (195-206), verifySignature        *)
(* (208-240).                                                              *)

\* Lines 132-136 and 140-155: the invocation runs up to the await of the
\* account request, or ends with a warning when there is no wallet.
connectWallet(f) ==
    /\ NextToStart(f)
    /\ op' = [op EXCEPT ![f] = "connectWallet"]
    /\ IF ethereum
       THEN /\ pc' = [pc EXCEPT ![f] = "eth_requestAccounts"]
            /\ Logged(f, <<Call("eth_requestAccounts", None)>>)
       ELSE /\ pc' = [pc EXCEPT ![f] = "done"]
            /\ Logged(f, <<Toast("warn", "MetaMask is not installed. Please install MetaMask to sign-up successfully.")>>)
    /\ UNCHANGED <<session, isWalletConnected, location, ethereum, user, token,
                   address, message, signature, timer>>

\* Lines 156-159: the catch of connectWallet.
ConnectFailedToast == Toast("error", "Failed to connect wallet. Please try again.")

\* Lines 253-256: the catch of handleMetaMaskLogin.
LoginFailedToast == Toast("error", "MetaMask login failed. Please try again.")

\* walletAccountsResolve with setIsWalletConnected(true) moved after getAddress.
walletAccountsResolveFlagLate(f, raw) ==
    /\ pc[f] = "eth_requestAccounts" /\ op[f] = "connectWallet"
    /\ IF getAddress(raw) = Throws
       THEN /\ pc' = [pc EXCEPT ![f] = "done"]
            /\ Logged(f, <<Reply("eth_requestAccounts", raw), ConnectFailedToast>>)
            /\ UNCHANGED <<address, isWalletConnected>>
       ELSE /\ isWalletConnected' = TRUE
            /\ address' = [address EXCEPT ![f] = getAddress(raw)]
            /\ pc' = [pc EXCEPT ![f] = "message"]
            /\ Logged(f, <<Reply("eth_requestAccounts", raw), SetConnected,
                           Call("message", getAddress(raw))>>)
    /\ UNCHANGED <<session, location, ethereum, op, user, token, message, signature,
                   timer>>

\* Lines 137-139, 244 and 164: eth_requestAccounts resolved; the address is
\* normalized and the challenge is requested for it.
walletAccountsResolve(f, raw) ==
    /\ pc[f] = "eth_requestAccounts" /\ op[f] = "connectWallet"
    /\ isWalletConnected' = TRUE
    /\ IF getAddress(raw) = Throws
       THEN /\ pc' = [pc EXCEPT ![f] = "done"]
            /\ Logged(f, <<Reply("eth_requestAccounts", raw), SetConnected,
                           ConnectFailedToast>>)
            /\ UNCHANGED address
       ELSE /\ address' = [address EXCEPT ![f] = getAddress(raw)]
            /\ pc' = [pc EXCEPT ![f] = "message"]
            /\ Logged(f, <<Reply("eth_requestAccounts", raw), SetConnected,
                           Call("message", getAddress(raw))>>)
    /\ UNCHANGED <<session, location, ethereum, op, user, token, message, signature,
                   timer>>

\* Lines 156-159: eth_requestAccounts rejected.
walletAccountsReject(f) ==
    /\ pc[f] = "eth_requestAccounts" /\ op[f] = "connectWallet"
    /\ pc' = [pc EXCEPT ![f] = "done"]
    /\ Logged(f, <<Reject("eth_requestAccounts", None), ConnectFailedToast>>)
    /\ UNCHANGED <<session, isWalletConnected, location, ethereum, op, user, token,
                   address, message, signature, timer>>

\* getSiweMessageResolve without the check of line 245.
getSiweMessageResolveUnchecked(f, data) ==
    /\ pc[f] = "message"
    /\ message' = [message EXCEPT ![f] = data]
    /\ pc' = [pc EXCEPT ![f] = "signMessage"]
    /\ Logged(f, <<Reply("message", data), Call("signMessage", data)>>)
    /\ UNCHANGED <<session, isWalletConnected, location, ethereum, op, user, token,
                   address, signature, timer>>

\* Lines 177 and 244-248, 197-199: the challenge endpoint answered 2xx with
\* body data; an empty body is "Message generation failed", anything else is
\* handed to the wallet for signing.
getSiweMessageResolve(f, data) ==
    /\ pc[f] = "message"
    /\ IF Falsy(data)
       THEN /\ pc' = [pc EXCEPT ![f] = "done"]
            /\ Logged(f, <<Reply("message", data), LoginFailedToast>>)
            /\ UNCHANGED message
       ELSE /\ message' = [message EXCEPT ![f] = data]
            /\ pc' = [pc EXCEPT ![f] = "signMessage"]
            /\ Logged(f, <<Reply("message", data), Call("signMessage", data)>>)
    /\ UNCHANGED <<session, isWalletConnected, location, ethereum, op, user, token,
                   address, signature, timer>>

\* Lines 178-192: the catch of getSiweMessage.
ChallengeFailedToast ==
    Toast("error", "Failed to authenticate with MetaMask. Please try again.")

\* getSiweMessageReject without the check of line 245: the undefined message
\* is handed to the wallet for signing.
getSiweMessageRejectUnchecked(f) ==
    /\ pc[f] = "message"
    /\ pc' = [pc EXCEPT ![f] = "signMessage"]
    /\ Logged(f, <<Reject("message", None), ChallengeFailedToast,
                   Call("signMessage", None)>>)
    /\ UNCHANGED <<session, isWalletConnected, location, ethereum, op, user, token,
                   address, message, signature, timer>>

\* Lines 178-192 and 245-247, 253-256: the challenge request failed (network
\* error or non-2xx); getSiweMessage returns undefined.
getSiweMessageReject(f) ==
    /\ pc[f] = "message"
    /\ pc' = [pc EXCEPT ![f] = "done"]
    /\ Logged(f, <<Reject("message", None), ChallengeFailedToast, LoginFailedToast>>)
    /\ UNCHANGED <<session, isWalletConnected, location, ethereum, op, user, token,
                   address, message, signature, timer>>

\* Lines 201, 248-252 and 214-217: the wallet signed; an empty signature is
\* "Signature is required", anything else is sent to the verify endpoint.
signMessageResolve(f, sig) ==
    /\ pc[f] = "signMessage"
    /\ IF Falsy(sig)
       THEN /\ pc' = [pc EXCEPT ![f] = "done"]
            /\ Logged(f, <<Reply("signMessage", sig), LoginFailedToast>>)
            /\ UNCHANGED signature
       ELSE /\ signature' = [signature EXCEPT ![f] = sig]
            /\ pc' = [pc EXCEPT ![f] = "verify"]
            /\ Logged(f, <<Reply("signMessage", sig), Call("verify", <<message[f], sig>>)>>)
    /\ UNCHANGED <<session, isWalletConnected, location, ethereum, op, user, token,
                   address, message, timer>>

\* Lines 202-205: the catch of signMessage.
SignFailedToast == Toast("error", "Failed to sign message. Please try again.")

\* signMessageReject without the catch of signMessage: the rejection escapes
\* the flow, which never returns.
signMessageRejectUncaught(f) ==
    /\ pc[f] = "signMessage"
    /\ pc' = [pc EXCEPT ![f] = "uncaught"]
    /\ Logged(f, <<Reject("signMessage", None)>>)
    /\ UNCHANGED <<session, isWalletConnected, location, ethereum, op, user, token,
                   address, message, signature, timer>>

\* Lines 202-205 and 249-251, 253-256: signing was declined or failed;
\* signMessage returns undefined.
signMessageReject(f) ==
    /\ pc[f] = "signMessage"
    /\ pc' = [pc EXCEPT ![f] = "done"]
    /\ Logged(f, <<Reject("signMessage", None), SignFailedToast, LoginFailedToast>>)
    /\ UNCHANGED <<session, isWalletConnected, location, ethereum, op, user, token,
                   address, message, signature, timer>>

\* VerifySucceeded without the setTimeout of lines 230-232.
VerifySucceededNoTimer(f) ==
    /\ session' = setUser(session, WalletPayload(address[f]))
    /\ Logged(f, <<Reply("verify", TRUE),
                   Toast("success", "Successfully authenticated with MetaMask!"),
                   Dispatch(WalletPayload(address[f]))>>)
    /\ UNCHANGED timer

\* Lines 219-232: the success verdict.
VerifySucceeded(f) ==
    /\ session' = setUser(session, WalletPayload(address[f]))
    /\ timer' = [timer EXCEPT ![f] = "pending"]
    /\ Logged(f, <<Reply("verify", TRUE),
                   Toast("success", "Successfully authenticated with MetaMask!"),
                   Dispatch(WalletPayload(address[f])),
                   SetTimeout>>)

\* VerifyDenied with the verdict ignored: the record is published anyway.
VerifyDeniedPublishes(f) ==
    /\ session' = setUser(session, WalletPayload(address[f]))
    /\ timer' = [timer EXCEPT ![f] = "pending"]
    /\ Logged(f, <<Reply("verify", FALSE),
                   Toast("success", "Successfully authenticated with MetaMask!"),
                   Dispatch(WalletPayload(address[f])),
                   SetTimeout>>)

\* Lines 233-235: the negative verdict.
VerifyDenied(f) ==
    /\ Logged(f, <<Reply("verify", FALSE), Toast("error", "Authentication failed!")>>)
    /\ UNCHANGED <<session, timer>>

\* Lines 218-235: the verify endpoint answered 2xx with data.success = success.
verifySignatureResolve(f, success) ==
    /\ pc[f] = "verify"
    /\ pc' = [pc EXCEPT ![f] = "done"]
    /\ IF success THEN VerifySucceeded(f) ELSE VerifyDenied(f)
    /\ UNCHANGED <<isWalletConnected, location, ethereum, op, user, token, address,
                   message, signature>>

\* verifySignatureReject that sends the verify request once more after its
\* first failure.
verifySignatureRejectRetries(f) ==
    /\ pc[f] = "verify"
    /\ IF \E i \in DOMAIN log[f] : log[f][i][1] = "reject" /\ log[f][i][2] = "verify"
       THEN /\ pc' = [pc EXCEPT ![f] = "done"]
            /\ Logged(f, <<Reject("verify", None),
                           Toast("error", "Verification failed. Please try again.")>>)
       ELSE /\ pc' = pc
            /\ Logged(f, <<Reject("verify", None),
                           Call("verify", <<message[f], signature[f]>>)>>)
    /\ UNCHANGED <<session, isWalletConnected, location, ethereum, op, user, token,
                   address, message, signature, timer>>

\* verifySignatureReject with the navigation timer armed in the catch.
verifySignatureRejectNavigates(f) ==
    /\ pc[f] = "verify"
    /\ pc' = [pc EXCEPT ![f] = "done"]
    /\ timer' = [timer EXCEPT ![f] = "pending"]
    /\ Logged(f, <<Reject("verify", None),
                   Toast("error", "Verification failed. Please try again."),
                   SetTimeout>>)
    /\ UNCHANGED <<session, isWalletConnected, location, ethereum, op, user, token,
                   address, message, signature>>

\* Lines 236-239: the verify request failed.
verifySignatureReject(f) ==
    /\ pc[f] = "verify"
    /\ pc' = [pc EXCEPT ![f] = "done"]
    /\ Logged(f, <<Reject("verify", None),
                   Toast("error", "Verification failed. Please try again.")>>)
    /\ UNCHANGED <<session, isWalletConnected, location, ethereum, op, user, token,
                   address, message, signature, timer>>

\* Lines 230-232: the timer set by verifySignature fires.
navigateAfterTimeout(f) ==
    /\ timer[f] = "pending"
    /\ timer' = [timer EXCEPT ![f] = "fired"]
    /\ location' = "/home"
    /\ Logged(f, <<Navigate("/home")>>)
    /\ UNCHANGED <<session, isWalletConnected, ethereum, pc, op, user, token, address,
                   message, signature>>

----------------------------------------------------------------------------
Next ==
    \E f \in Flows :
        \/ handleGoogleAuth(f)
        \/ \E d \in DisplayNames, p \in PhotoURLs, t \in AccessTokens :
               signInWithPopupResolve(f, [displayName |-> d, photoURL |-> p], t)
        \/ \E code \in AuthErrorCodes : signInWithPopupReject(f, code)
        \/ \E raw \in AccountReplies : googleAccountsResolve(f, raw)
        \/ googleAccountsReject(f)
        \/ connectWallet(f)
        \/ \E raw \in AccountReplies : walletAccountsResolve(f, raw)
        \/ walletAccountsReject(f)
        \/ \E data \in ChallengeReplies : getSiweMessageResolve(f, data)
        \/ getSiweMessageReject(f)
        \/ \E sig \in SignReplies(message[f]) : signMessageResolve(f, sig)
        \/ signMessageReject(f)
        \/ \E success \in VerifyReplies : verifySignatureResolve(f, success)
        \/ verifySignatureReject(f)
        \/ navigateAfterTimeout(f)

Spec == Init /\ [][Next]_vars

\* The answers of the external collaborators to the request flow f awaits.
Answer(f) ==
    \/ \E d \in DisplayNames, p \in PhotoURLs, t \in AccessTokens :
           signInWithPopupResolve(f, [displayName |-> d, photoURL |-> p], t)
    \/ \E code \in AuthErrorCodes : signInWithPopupReject(f, code)
    \/ \E raw \in AccountReplies : googleAccountsResolve(f, raw)
    \/ googleAccountsReject(f)
    \/ \E raw \in AccountReplies : walletAccountsResolve(f, raw)
    \/ walletAccountsReject(f)
    \/ \E data \in ChallengeReplies : getSiweMessageResolve(f, data)
    \/ getSiweMessageReject(f)
    \/ \E sig \in SignReplies(message[f]) : signMessageResolve(f, sig)
    \/ signMessageReject(f)
    \/ \E success \in VerifyReplies : verifySignatureResolve(f, success)
    \/ verifySignatureReject(f)

\* The event loop runs a continuation that is ready: an answer of a
\* collaborator that has arrived, or a timer that has expired.
Continue == \E f \in Flows : Answer(f) \/ navigateAfterTimeout(f)

\* While requests are pending or timers are set, one of them is eventually
\* answered, with a result or a failure, or fires.
FairSpec == Spec /\ WF_vars(Continue)

----------------------------------------------------------------------------
(* Reading a flow's log.                                                   *)

Entries(f, kind) == SelectSeq(log[f], LAMBDA e : e[1] = kind)
Toasts(f)      == Entries(f, "toast")
Dispatches(f)  == Entries(f, "dispatch")
Navigations(f) == Entries(f, "navigate")

ErrorToasts(f) == SelectSeq(Toasts(f), LAMBDA e : e[2] = "error")

\* Positions of the log of f at which request `what` was sent, answered, failed.
CallsAt(f, what)   == {i \in DOMAIN log[f] : log[f][i][1] = "call" /\ log[f][i][2] = what}
RepliesAt(f, what) == {i \in DOMAIN log[f] : log[f][i][1] = "reply" /\ log[f][i][2] = what}
RejectsAt(f, what) == {i \in DOMAIN log[f] : log[f][i][1] = "reject" /\ log[f][i][2] = what}

\* Positions at which f received the verify endpoint's verdict v.
VerdictsAt(f, v) == {i \in RepliesAt(f, "verify") : log[f][i][3] = v}

\* Positions at which f published a record that carries a walletAddress.
WalletDispatchesAt(f) ==
    {i \in DOMAIN log[f] : /\ log[f][i][1] = "dispatch"
                           /\ "walletAddress" \in DOMAIN log[f][i][3].user}

HasWalletAddress == session # << >> /\ "walletAddress" \in DOMAIN session[1].user

WalletFlows == {f \in Flows : op[f] = "connectWallet"}
GoogleFlows == {f \in Flows : op[f] = "handleGoogleAuth"}

----------------------------------------------------------------------------
(* C1: the session record in the store carries a walletAddress only if a   *)
(* flow published that record after the verify endpoint answered success   *)
(* true in that same flow.                                                 *)
C1_WalletAddressVerified ==
    HasWalletAddress =>
        \E f \in Flows : \E i \in WalletDispatchesAt(f) :
            /\ log[f][i][3] = session[1]
            /\ \E j \in VerdictsAt(f, TRUE) : j < i

(* C2: a connectWallet flow whose account request, challenge request,      *)
(* signing and verification all succeeded has published exactly one        *)
(* session record, and its walletAddress is the normalized form of the     *)
(* address its own account request returned.                               *)
C2_WalletOnlySuccess ==
    \A f \in WalletFlows :
        VerdictsAt(f, TRUE) # {} =>
            /\ Len(Dispatches(f)) = 1
            /\ \E i \in WalletDispatchesAt(f) : \E j \in RepliesAt(f, "eth_requestAccounts") :
                   log[f][i][3].user.walletAddress = getAddress(log[f][j][3])

\* A connectWallet flow was verified with the lower-case spelling of an account
\* while another flow connected a different account.
C2_Witness ==
    \E f \in WalletFlows : \E g \in Flows \ {f} :
        /\ VerdictsAt(f, TRUE) # {}
        /\ \E j \in RepliesAt(f, "eth_requestAccounts") : log[f][j][3] = "0xaa"
        /\ address[g] = "0xBb"
        /\ session = <<WalletPayload("0xAa")>>

\* What holds of a connectWallet flow once it has received a negative verdict.
C3_DeniedState ==
    \A f \in WalletFlows :
        VerdictsAt(f, FALSE) # {} =>
            /\ Dispatches(f) = << >>
            /\ Navigations(f) = << >>
            /\ timer[f] = "unset"
            /\ pc[f] = "done"
            /\ Toasts(f) = <<Toast("error", "Authentication failed!")>>

\* The step in which a flow receives a negative verdict.
C3_DeniedStep ==
    \A f \in Flows :
        (VerdictsAt(f, FALSE) = {} /\ VerdictsAt(f, FALSE)' # {}) =>
            (session' = session /\ location' = location)

(* C3: a connectWallet flow whose verify request was answered success      *)
(* false has published no session record, has triggered no navigation (nor *)
(* armed the timer that would), and has reported the denial as an error    *)
(* notification; the step that handles the verdict leaves the store and    *)
(* the route as they were.                                                 *)
C3_VerificationDenied == []C3_DeniedState /\ [][C3_DeniedStep]_vars

\* A negative verdict arrived while the store already held a record.
C3_Witness ==
    \E f \in WalletFlows : VerdictsAt(f, FALSE) # {} /\ session # << >>

(* C4 as claimed: a connectWallet flow whose challenge request failed has  *)
(* made no signing request, sent no verify request, published no session   *)
(* record, and exactly one failure notification was reported for it.       *)
C4_OneFailureReported ==
    \A f \in WalletFlows :
        RejectsAt(f, "message") # {} =>
            /\ CallsAt(f, "signMessage") = {}
            /\ CallsAt(f, "verify") = {}
            /\ Dispatches(f) = << >>
            /\ Len(ErrorToasts(f)) = 1

(* C4 as amended: a connectWallet flow whose challenge request failed has  *)
(* made no signing request, sent no verify request, published no session   *)
(* record, and two error notifications were reported for it: the           *)
(* challenge-failed notification of getSiweMessage, once, followed by the  *)
(* login-failed notification of handleMetaMaskLogin.                       *)
C4_ChallengeFailedReportedTwice ==
    \A f \in WalletFlows :
        RejectsAt(f, "message") # {} =>
            /\ CallsAt(f, "signMessage") = {}
            /\ CallsAt(f, "verify") = {}
            /\ Dispatches(f) = << >>
            /\ pc[f] = "done"
            /\ Toasts(f) =
                   <<Toast("error", "Failed to authenticate with MetaMask. Please try again."),
                     Toast("error", "MetaMask login failed. Please try again.")>>

\* The challenge request of a flow failed after its wallet connected.
C4_Witness ==
    \E f \in WalletFlows :
        RejectsAt(f, "message") # {} /\ address[f] = "0xBb" /\ isWalletConnected

----------------------------------------------------------------------------
\* The federated assertion flow f received: <<result.user, accessToken>>.
Assertion(f) == log[f][CHOOSE j \in RepliesAt(f, "signInWithPopup") : TRUE][3]

\* A federated field as the session record shows it: the default stands in
\* for a missing or empty value.
Shown(x, default) == IF x \in {None, ""} THEN default ELSE x

\* The federated-only session record of assertion a.
FederatedOnly(a) ==
    [user |-> [name |-> Shown(a[1].displayName, "User"),
               avatar |-> Shown(a[1].photoURL,
                                "https://cdn-icons-png.flaticon.com/128/3177/3177440.png")],
     token |-> a[2]]

\* Flows of handleGoogleAuth whose federated step yielded a token.
SignedIn == {f \in GoogleFlows : RepliesAt(f, "signInWithPopup") # {} /\ Assertion(f)[2] # None}

(* C5 as claimed: a handleGoogleAuth flow whose federated step yielded a   *)
(* token while no wallet provider is present has published one session     *)
(* record whose name, avatar and token are the assertion's displayName,    *)
(* photo URL and token and which has no walletAddress, has navigated, is   *)
(* complete and reported no error-severity notification.                   *)
C5_FieldsAreTheAssertions ==
    \A f \in SignedIn :
        ~ethereum =>
            /\ Len(Dispatches(f)) = 1
            /\ Dispatches(f)[1][3].user.name = Assertion(f)[1].displayName
            /\ Dispatches(f)[1][3].user.avatar = Assertion(f)[1].photoURL
            /\ Dispatches(f)[1][3].token = Assertion(f)[2]
            /\ "walletAddress" \notin DOMAIN Dispatches(f)[1][3].user
            /\ Navigations(f) = <<Navigate("/home")>>
            /\ pc[f] = "done"
            /\ ErrorToasts(f) = << >>

(* C5 as amended: a handleGoogleAuth flow whose federated step yielded a   *)
(* token while no wallet provider is present has published one session     *)
(* record whose token is the assertion's, whose name is the assertion's    *)
(* displayName or "User" when that is missing, whose avatar is the         *)
(* assertion's photo URL or the default avatar when that is missing, and   *)
(* which has no walletAddress; it has navigated, is complete and reported  *)
(* only a warning.                                                         *)
C5_FederatedOnlyWhenWalletAbsent ==
    \A f \in SignedIn :
        ~ethereum =>
            /\ Dispatches(f) = <<Dispatch(FederatedOnly(Assertion(f)))>>
            /\ "walletAddress" \notin DOMAIN Dispatches(f)[1][3].user
            /\ Navigations(f) = <<Navigate("/home")>>
            /\ pc[f] = "done"
            /\ ErrorToasts(f) = << >>
            /\ Len(Toasts(f)) = 1 /\ Toasts(f)[1][2] = "warn"

\* Without a wallet provider, one flow published an assertion that has a
\* displayName and a photo and another one that has neither.
C5_Witness ==
    /\ ~ethereum
    /\ \E f \in SignedIn, g \in SignedIn :
           /\ Assertion(f)[1] = [displayName |-> "Alice", photoURL |-> "alice.png"]
           /\ Assertion(g)[1] = [displayName |-> None, photoURL |-> None]
           /\ session = <<FederatedOnly(Assertion(g))>>
           /\ location = "/home"

\* Flows of handleGoogleAuth whose account request was rejected.
Declined == {f \in SignedIn : RejectsAt(f, "eth_requestAccounts") # {}}

(* C6 as claimed: a handleGoogleAuth flow whose account request was        *)
(* rejected ends as in the wallet-absent case: the federated-only record   *)
(* is published, navigation is triggered, the flow is complete, and no     *)
(* error-severity notification reports the wallet failure.                 *)
C6_DeclinedAsAbsent ==
    \A f \in Declined :
        /\ Dispatches(f) = <<Dispatch(FederatedOnly(Assertion(f)))>>
        /\ Navigations(f) = <<Navigate("/home")>>
        /\ pc[f] = "done"
        /\ ErrorToasts(f) = << >>

(* C6 as amended: a handleGoogleAuth flow whose account request was        *)
(* rejected publishes the same federated-only record (no walletAddress) as *)
(* the wallet-absent case, triggers navigation and is complete; unlike the *)
(* wallet-absent case, which reports a warning, it reports the wallet      *)
(* failure as one error-severity notification.                             *)
C6_DeclinedPublishesFederatedOnly ==
    \A f \in Declined :
        /\ Dispatches(f) = <<Dispatch(FederatedOnly(Assertion(f)))>>
        /\ "walletAddress" \notin DOMAIN Dispatches(f)[1][3].user
        /\ Navigations(f) = <<Navigate("/home")>>
        /\ pc[f] = "done"
        /\ Toasts(f) = <<Toast("error", "Failed to connect wallet. Please try again.")>>

\* The account request of a combined flow was rejected and its federated-only
\* record is the one in the store.
C6_Witness ==
    \E f \in Declined :
        /\ Assertion(f)[1].displayName = "Alice"
        /\ session = <<FederatedOnly(Assertion(f))>>
        /\ location = "/home"

(* C7: a handleGoogleAuth flow whose federated step succeeded and whose    *)
(* wallet connected publishes its single record, carrying the federated    *)
(* fields and the walletAddress of the connected wallet, after the verify  *)
(* endpoint answered success true in that flow.                            *)
C7_CombinedAfterVerification ==
    \A f \in SignedIn :
        \A i \in WalletDispatchesAt(f) :
            /\ Len(Dispatches(f)) = 1
            /\ log[f][i][3].user.walletAddress = address[f]
            /\ log[f][i][3].token = Assertion(f)[2]
            /\ \E j \in VerdictsAt(f, TRUE) : j < i

\* The step in which a connectWallet flow receives the success verdict while
\* the store holds a record without walletAddress.
C8_MergeStep ==
    \A f \in Flows :
        ( /\ op[f] = "connectWallet"
          /\ VerdictsAt(f, TRUE) = {} /\ VerdictsAt(f, TRUE)' # {}
          /\ session # << >> /\ ~HasWalletAddress )
        => /\ session' # << >>
           /\ session'[1].token = session[1].token
           /\ session'[1].user.name = session[1].user.name
           /\ session'[1].user.avatar = session[1].user.avatar
           /\ "walletAddress" \in DOMAIN session'[1].user
           /\ session'[1].user.walletAddress = address[f]

(* C8: when the store holds a federated-only record and a connectWallet    *)
(* flow receives the success verdict, the record in the store afterwards   *)
(* keeps the name, avatar and token of the federated-only record and adds  *)
(* the flow's verified walletAddress.                                      *)
C8_MergeAcrossFlows == [][C8_MergeStep]_vars

----------------------------------------------------------------------------
\* connectWallet flows that ended without a success verdict.
FailedWalletFlows == {f \in WalletFlows : pc[f] = "done" /\ VerdictsAt(f, TRUE) = {}}

\* What holds of a connectWallet flow that ended without a success verdict.
C9_FailedState ==
    \A f \in FailedWalletFlows :
        /\ Dispatches(f) = << >>
        /\ Navigations(f) = << >>
        /\ timer[f] = "unset"
        /\ \A g \in Flows : pc[g] = "idle" /\ (\A h \in Flows : h < g => pc[h] # "idle")
                            => ENABLED connectWallet(g)

\* A step of a connectWallet flow that has not received a success verdict.
C9_FailedStep ==
    \A f \in Flows :
        ( /\ op'[f] = "connectWallet"
          /\ pc'[f] # pc[f]
          /\ VerdictsAt(f, TRUE)' = {} )
        => (session' = session /\ location' = location)

(* C9: a connectWallet flow that failed at any step (no wallet provider,   *)
(* account request rejected, address not normalizable, challenge request   *)
(* failed or empty, signature declined or empty, verify request failed,    *)
(* negative verdict) has published nothing, triggered no navigation and    *)
(* armed no timer, and the next invocation of connectWallet can be made;   *)
(* no step of a connectWallet flow other than the handling of a success    *)
(* verdict changes the store or the route.                                 *)
C9_FailureIsTerminal == []C9_FailedState /\ [][C9_FailedStep]_vars

\* The verify request of a connectWallet flow failed, and a later connectWallet
\* flow was started and got its wallet connected.
C9_Witness ==
    \E f \in FailedWalletFlows : \E g \in WalletFlows :
        /\ g > f
        /\ RejectsAt(f, "verify") # {}
        /\ isWalletConnected
        /\ pc[g] = "message"

----------------------------------------------------------------------------
\* Positions of the requests of f and of the answers to them.
Requests(f) == {i \in DOMAIN log[f] : log[f][i][1] = "call"}
Answers(f)  == {i \in DOMAIN log[f] : log[f][i][1] \in {"reply", "reject"}}

(* C10: in a connectWallet flow the challenge request is sent only after   *)
(* the account request returned an address, and for the normalized form of *)
(* that address; the signing request is made only after a non-empty        *)
(* challenge message was received in answer to that challenge request, and *)
(* for that message; the verify request is sent only after a non-empty     *)
(* signature was received for that message, and carries both; and every    *)
(* request is sent only when all earlier requests of the flow have been    *)
(* answered, so no two are in progress at once.                            *)
C10_StepOrdering ==
    \A f \in WalletFlows :
        /\ \A i \in CallsAt(f, "message") :
               \E j \in RepliesAt(f, "eth_requestAccounts") :
                   /\ j < i
                   /\ log[f][j][3] \in {"0xaa", "0xAa", "0xbb", "0xBb"}
                   /\ log[f][i][3] = getAddress(log[f][j][3])
        /\ \A i \in CallsAt(f, "signMessage") :
               \E j \in RepliesAt(f, "message") : \E k \in CallsAt(f, "message") :
                   /\ k < j /\ j < i
                   /\ log[f][j][3] # ""
                   /\ log[f][i][3] = log[f][j][3]
        /\ \A i \in CallsAt(f, "verify") :
               \E j \in RepliesAt(f, "signMessage") : \E k \in CallsAt(f, "signMessage") :
                   /\ k < j /\ j < i
                   /\ log[f][j][3] # ""
                   /\ log[f][i][3] = <<log[f][k][3], log[f][j][3]>>
        /\ \A i \in Requests(f) :
               Cardinality({k \in Requests(f) : k < i}) = Cardinality({k \in Answers(f) : k < i})
        /\ Cardinality(Requests(f)) - Cardinality(Answers(f)) \in {0, 1}

\* A flow has sent its verify request while another flow is suspended at its
\* own challenge request for a different address.
C10_Witness ==
    \E f \in WalletFlows, g \in WalletFlows :
        /\ pc[f] = "verify" /\ address[f] = "0xAa" /\ message[f] = "msg2"
        /\ pc[g] = "message" /\ address[g] = "0xBb"

----------------------------------------------------------------------------
\* Flows that were started and have not returned.
InFlight == {f \in Flows : pc[f] \notin {"idle", "done"}}

\* A flow is idle, suspended at one of its awaits, or has returned.
ProgramPoints ==
    \A f \in Flows : pc[f] \in {"idle", "signInWithPopup", "eth_requestAccounts",
                                 "message", "signMessage", "verify", "done"}

\* A started flow stays started and a flow that returned stays returned.
StartedStays ==
    \A f \in Flows : /\ pc[f] # "idle" => pc'[f] # "idle"
                     /\ pc[f] = "done" => pc'[f] = "done"

(* C11: when every pending request is eventually answered with a result or *)
(* a failure, every started handleGoogleAuth or connectWallet flow         *)
(* eventually completes and returns (from some point on no started flow is *)
(* short of its end, and a started flow never becomes unstarted); no       *)
(* answer leaves a flow anywhere but at its next await or at its end.      *)
C11_Termination ==
    /\ []ProgramPoints
    /\ [][StartedStays]_vars
    /\ <>[](InFlight = {})

\* A connectWallet flow returned after its signing request failed while a
\* handleGoogleAuth flow returned after a failed federated sign-in.
C11_Witness ==
    \E f \in WalletFlows, g \in GoogleFlows :
        /\ pc[f] = "done" /\ RejectsAt(f, "signMessage") # {}
        /\ pc[g] = "done" /\ RejectsAt(g, "signInWithPopup") # {}

----------------------------------------------------------------------------
\* Positions of the log of f at which f navigated, and at which it published.
NavigationsAt(f) == {i \in DOMAIN log[f] : log[f][i][1] = "navigate"}
DispatchesAt(f)  == {i \in DOMAIN log[f] : log[f][i][1] = "dispatch"}

\* Every navigation of a flow comes after a publish of that same flow.
NavigationAfterPublish ==
    \A f \in Flows : \A i \in NavigationsAt(f) : \E j \in DispatchesAt(f) : j < i

\* Every flow that has published has navigated.
PublishedHasNavigated ==
    \A f \in Flows : DispatchesAt(f) # {} => NavigationsAt(f) # {}

\* A flow's log only grows.
LogGrows ==
    \A f \in Flows : /\ Len(log'[f]) >= Len(log[f])
                     /\ SubSeq(log'[f], 1, Len(log[f])) = log[f]

(* C12: a flow navigates to the authenticated area only after it has       *)
(* published a session record itself (never before its publish, never      *)
(* without one); and, timers firing, every flow that published eventually  *)
(* navigates: what a flow has published or navigated stays in its log, and *)
(* from some point on every flow that has published has navigated.         *)
C12_NavigationFollowsPublish ==
    /\ []NavigationAfterPublish
    /\ [][LogGrows]_vars
    /\ <>[]PublishedHasNavigated

\* A connectWallet flow has published and its timer has not yet fired, while
\* a handleGoogleAuth flow has published and navigated.
C12_Witness ==
    \E f \in WalletFlows, g \in GoogleFlows :
        /\ DispatchesAt(f) # {} /\ NavigationsAt(f) = {} /\ timer[f] = "pending"
        /\ DispatchesAt(g) # {} /\ NavigationsAt(g) # {}

----------------------------------------------------------------------------
(* C13: at most one login flow is in flight at any time: while a flow is   *)
(* suspended at a wallet prompt or network call, no second flow is         *)
(* started.                                                                *)
C13_SingleFlowInFlight == Cardinality(InFlight) <= 1

----------------------------------------------------------------------------
\* A session record with all its fields: name, avatar, token and, optionally,
\* walletAddress.
Complete(p) ==
    /\ DOMAIN p = {"user", "token"}
    /\ {"name", "avatar"} \subseteq DOMAIN p.user
    /\ DOMAIN p.user \subseteq {"name", "avatar", "walletAddress"}
    /\ ~Falsy(p.user.name) /\ ~Falsy(p.user.avatar) /\ ~Falsy(p.token)

\* Each flow has published at most once, every record published is complete,
\* and the store is empty or holds one published record as a whole.
PublishedWhole ==
    /\ \A f \in Flows : Cardinality(DispatchesAt(f)) <= 1
    /\ \A f \in Flows : \A i \in DispatchesAt(f) : Complete(log[f][i][3])
    /\ \/ session = << >>
       \/ \E f \in Flows : \E i \in DispatchesAt(f) : session = <<log[f][i][3]>>

\* A step changes the store only by the one record the stepping flow
\* publishes in it, and every publish of a record puts that record in the store.
PublishStep ==
    /\ session' # session =>
           \E f \in Flows : /\ DispatchesAt(f) = {} /\ DispatchesAt(f)' # {}
                            /\ \A i \in DispatchesAt(f)' : session' = <<log'[f][i][3]>>
    /\ \A f \in Flows : DispatchesAt(f)' # DispatchesAt(f) =>
           \A i \in DispatchesAt(f)' : session' = <<log'[f][i][3]>>

(* C14: every update of the session store puts one complete session record *)
(* (name, avatar, token, optionally walletAddress) in it in a single step; *)
(* each flow publishes at most once; and in no reachable state, the states *)
(* after a failure inside a flow included, does the store hold anything    *)
(* but nothing or one whole published record.                              *)
C14_AtomicPublish == []PublishedWhole /\ [][PublishStep]_vars

\* The wallet part of a handleGoogleAuth flow failed after another flow had
\* published a record with a walletAddress: the store holds the whole
\* federated-only record of the failed flow.
C14_Witness ==
    \E f \in GoogleFlows : \E g \in Flows \ {f} :
        /\ WalletDispatchesAt(g) # {}
        /\ RepliesAt(f, "eth_requestAccounts") # {} /\ address[f] = None
        /\ pc[f] = "done"
        /\ session = <<GooglePayload(user[f], token[f])>>

----------------------------------------------------------------------------
(* C15: a connectWallet flow issues at most one account request, at most   *)
(* one challenge request, at most one signing request and at most one      *)
(* verify request, so the challenge message it obtained is submitted for   *)
(* verification at most once.                                              *)
C15_NoInternalRetry ==
    \A f \in WalletFlows :
        /\ Cardinality(CallsAt(f, "eth_requestAccounts")) <= 1
        /\ Cardinality(CallsAt(f, "message")) <= 1
        /\ Cardinality(CallsAt(f, "signMessage")) <= 1
        /\ Cardinality(CallsAt(f, "verify")) <= 1
        /\ Cardinality(RepliesAt(f, "message")) <= 1
        /\ \A i \in CallsAt(f, "verify") : \A j \in CallsAt(f, "verify") :
               log[f][i][3][1] = log[f][j][3][1] => i = j

\* A connectWallet flow returned after its verify request failed, and another
\* one after its challenge request failed.
C15_Witness ==
    \E f \in WalletFlows, g \in WalletFlows :
        /\ pc[f] = "done" /\ RejectsAt(f, "verify") # {}
        /\ pc[g] = "done" /\ RejectsAt(g, "message") # {}

----------------------------------------------------------------------------
(* C16: every flow that has returned without publishing a session record   *)
(* has reported at least one notification through the notification sink.   *)
C16_NoSilentFailure ==
    \A f \in Flows :
        (pc[f] = "done" /\ DispatchesAt(f) = {}) => Toasts(f) # << >>

\* A handleGoogleAuth flow returned after the popup was closed and a
\* connectWallet flow returned after an empty challenge message; neither
\* published.
C16_Witness ==
    \E f \in GoogleFlows, g \in WalletFlows :
        /\ pc[f] = "done" /\ DispatchesAt(f) = {}
        /\ \E i \in RejectsAt(f, "signInWithPopup") : log[f][i][3] = "auth/popup-closed-by-user"
        /\ pc[g] = "done" /\ DispatchesAt(g) = {}
        /\ \E i \in RepliesAt(g, "message") : log[g][i][3] = ""

----------------------------------------------------------------------------
\* Flows of handleGoogleAuth whose federated sign-in failed, was cancelled or
\* yielded no access token.
FederatedFailed ==
    {f \in GoogleFlows :
        \/ RejectsAt(f, "signInWithPopup") # {}
        \/ RepliesAt(f, "signInWithPopup") # {} /\ Assertion(f)[2] \in {None, ""}}

\* The wallet is asked only after a sign-in that yielded a token; a flow
\* whose federated step failed asked no wallet, published and navigated
\* nothing, and has returned.
FederatedFirst ==
    /\ \A f \in GoogleFlows : \A i \in CallsAt(f, "eth_requestAccounts") :
           \E j \in RepliesAt(f, "signInWithPopup") :
               j < i /\ log[f][j][3][2] \notin {None, ""}
    /\ \A f \in FederatedFailed :
           /\ CallsAt(f, "eth_requestAccounts") = {}
           /\ DispatchesAt(f) = {}
           /\ NavigationsAt(f) = {}
           /\ timer[f] = "unset"
           /\ pc[f] = "done"

\* The step in which the federated step of a flow fails.
FederatedFailedStep ==
    FederatedFailed' # FederatedFailed =>
        (session' = session /\ location' = location /\ isWalletConnected' = isWalletConnected)

(* C17: in handleGoogleAuth the wallet account request is made only after   *)
(* the federated sign-in succeeded with a non-empty access token; when the  *)
(* sign-in fails, is cancelled or yields no access token the flow makes no  *)
(* wallet request, publishes nothing, triggers no navigation, and leaves    *)
(* the session store as it was.                                            *)
C17_FederatedStepFirst == []FederatedFirst /\ [][FederatedFailedStep]_vars

\* With a wallet present, a sign-in without access token ended a flow while
\* the store held the record of another flow.
C17_Witness ==
    /\ ethereum
    /\ session # << >>
    /\ \E f \in FederatedFailed : RepliesAt(f, "signInWithPopup") # {}

----------------------------------------------------------------------------
\* The flag is set exactly when an account request of some flow has resolved.
ConnectedIffResolved ==
    isWalletConnected <=> \E f \in Flows : RepliesAt(f, "eth_requestAccounts") # {}

(* C18: isWalletConnected is false until a wallet account request of some   *)
(* flow has resolved, is true from then on, whatever the later steps        *)
(* (normalization, challenge, signing, verification) do, and never returns  *)
(* to false.                                                                *)
C18_WalletConnectedFlag ==
    /\ []ConnectedIffResolved
    /\ [][isWalletConnected => isWalletConnected']_vars

\* The flag is set although every flow has returned and no walletAddress was
\* published: one flow's address could not be normalized, the other's
\* challenge request failed.
C18_Witness ==
    /\ isWalletConnected
    /\ ~HasWalletAddress
    /\ \A f \in Flows : pc[f] = "done" /\ WalletDispatchesAt(f) = {}
    /\ \E f \in WalletFlows : \E i \in RepliesAt(f, "eth_requestAccounts") : log[f][i][3] = "0xzz"
    /\ \E f \in WalletFlows : RejectsAt(f, "message") # {}

====
